---------------------------- MODULE Spec2Model ----------------------------
(***************************************************************************)
(* A state-machine model of the PDFEditor React component                  *)
(* (src/PDFEditor/src/PDFEditor.jsx).  One action per event handler; each  *)
(* action contains the handler's state updates and the render that follows *)
(* them.  Array indices are 0-based as in the source; the TLA+ sequences   *)
(* holding the arrays are read at index + 1.                               *)
(***************************************************************************)
EXTENDS Integers, Sequences, FiniteSets, TLC

\* ------------------------------------------------------------------ bounds
\* Largest number of pages of an uploaded document (the size of the
\* annotations map's key range).
MaxPages == 2
\* Pages of a document whose sidebar is exercised on its own.
SidebarPages == 3
\* Largest number of text annotations on one page, of ink strokes and of
\* clicks on Rotate in one run, when a document is built and saved (SpecDoc).
DocAnnos == 1
DocStrokes == 1
DocRotations == 1
\* The same when one page is edited (SpecEdit) ...
EditAnnos == 2
\* ... and when ink is drawn (SpecInk).
InkStrokes == 2
InkRotations == 1
\* Largest number of text annotations and of ink strokes when text is
\* dragged and ink is drawn on one page (SpecDrag).
DragAnnos == 1
DragStrokes == 1
\* Largest number of pixels of a sampled whiteout window (SpecWhiteout).
MaxSamples == 2
\* Largest number of text annotations whose font is looked up (SpecFont).
MaxFontCalls == 2

\* --------------------------------------------------------------- constants
\* null of selectedAnnotationIndex / editingIndex.
NULL == -1
\* Width and height, in CSS pixels, of the page container's bounding rect.
ContainerW == 4
ContainerH == 4
\* Relative coordinates (fractions of the container) are kept in hundredths.
RelUnit == 100
\* The luma threshold of the smart whiteout, and the alpha threshold.
LumaMin == 100
AlphaMin == 50
\* Luma weights, in thousandths.
LumaR == 299
LumaG == 587
LumaB == 114
LumaUnit == 1000

Tools == {"cursor", "text", "whiteout", "draw"}
Families == {"Helvetica", "Times", "Courier"}
Rotations == {0, 90, 180, 270}
\* Pointer positions inside the container (clientX - rect.left, clientY - rect.top).
Points == {<<1, 1>>, <<3, 2>>}
\* What the user types into the input box.
Typed == {" ", "a"}

\* ----------------------------------------------------------------- values
DefaultFormatting ==
  [fontFamily |-> "Helvetica", fontSize |-> 16, isBold |-> FALSE,
   isItalic |-> FALSE, isUnderline |-> FALSE, color |-> "#000000"]

\* inputBox = null
NoInputBox ==
  [open |-> FALSE, x |-> 0, y |-> 0, relX |-> 0, relY |-> 0, text |-> "",
   style |-> DefaultFormatting]

\* dragging = null
NoDragging ==
  [type |-> "none", index |-> NULL, startX |-> 0, startY |-> 0,
   initialX |-> 0, initialY |-> 0]

\* A CSS colour: a keyword or hex string, or rgb(r, g, b).
Named(css) == [css |-> css, r |-> 0, g |-> 0, b |-> 0]
Rgb(r, g, b) == [css |-> "rgb", r |-> r, g |-> g, b |-> b]

\* annotations[i] === undefined (no key i, or a key holding undefined)
NoList == [defined |-> FALSE, items |-> <<>>]

DefinedList(items) == [defined |-> TRUE, items |-> items]

\* annotations[i] || []
ListOrEmpty(l) == IF l.defined THEN l.items ELSE <<>>

\* A variant of IsBlank that takes only the empty string for blank.
IsBlankEmptyOnly(text) == text = ""

\* String.prototype.trim() === "" for the typed strings
IsBlank(text) == text \in {"", " "}

\* (clientX - rect.left) / rect.width, in hundredths
RelOf(px, size) == (px * RelUnit) \div size

\* anno.x * rect.width
PxOf(rel, size) == (rel * size) \div RelUnit

VARIABLES
  isLibrariesLoaded,        \* line 11
  pdfFile,                  \* line 12: 0 = null, n = the bytes of an n-page PDF
  pages,                    \* line 13: sequence of [id, rotation]
  activePageIndex,          \* line 14
  tool,                     \* line 16
  annotations,              \* line 17: page index -> list or undefined
  selectedAnnotationIndex,  \* line 18
  isProcessing,             \* line 19
  showSignatureModal,       \* line 20
  textFormatting,           \* line 23
  dragging,                 \* line 33
  isDrawing,                \* line 34
  whiteoutColorRef,         \* line 38
  inputBox,                 \* line 41
  editingIndex,             \* line 42
  drawCanvas,               \* line 45: the set of strokes painted on the draw canvas
  pdfRender,                \* lines 126-162: the live renderPdf call, "idle" or "pending"
  imgLoads,                 \* lines 184-187: images of renderDrawings calls awaiting onload
  nStrokes,                 \* number of strokes started so far (names the ink)
  nRotations,               \* number of clicks on Rotate so far
  crashed,                  \* the last render threw: React unmounted the tree
  alertMsg,                 \* text of the alert() raised by the last step, "" if none
  download,                 \* the file handed to the browser by the last step
  requests,                 \* URLs the page has asked the network for
  libs,                     \* lines 50-77: the two script tags and the runs of the effect
  fnIn,                     \* the input of the function applied (SpecFont, SpecWhiteout)
  fnOut                     \* its result

vars ==
  <<isLibrariesLoaded, pdfFile, pages, activePageIndex, tool, annotations,
    selectedAnnotationIndex, isProcessing, showSignatureModal, textFormatting,
    dragging, isDrawing, whiteoutColorRef, inputBox, editingIndex, drawCanvas,
    pdfRender, imgLoads, nStrokes, nRotations, crashed, alertMsg, download,
    requests, libs, fnIn, fnOut>>

\* ------------------------------------------------------------ annotations
\* An entry of a page's annotation list.  Every entry carries every field;
\* the fields a type does not have hold the placeholders below.  "page" is a
\* history field: the id of the page that was active when the entry was
\* created (the page the user placed it on).
TextAnno(content, x, y, style, page) ==
  [type |-> "text", content |-> content, x |-> x, y |-> y, style |-> style,
   dataUrl |-> {}, page |-> page]

\* { type: 'drawing_layer', dataUrl } (line 495)
LayerAnno(dataUrl, page) ==
  [type |-> "drawing_layer", content |-> "", x |-> 0, y |-> 0,
   style |-> DefaultFormatting, dataUrl |-> dataUrl, page |-> page]

\* an array slot that holds undefined (an index never assigned)
UndefAnno ==
  [type |-> "undefined", content |-> "", x |-> 0, y |-> 0,
   style |-> DefaultFormatting, dataUrl |-> {}, page |-> 0]

\* pageAnnos[k] = v on a copy of the array: slots between the old end and k
\* come into being holding undefined.
SetAt(items, k, v) ==
  [i \in 1..(IF k + 1 > Len(items) THEN k + 1 ELSE Len(items)) |->
     IF i = k + 1 THEN v ELSE IF i <= Len(items) THEN items[i] ELSE UndefAnno]

\* pageAnnos.splice(k, 1)
Splice(items, k) ==
  [i \in 1..(IF k < Len(items) THEN Len(items) - 1 ELSE Len(items)) |->
     IF i <= k THEN items[i] ELSE items[i + 1]]

\* pageAnnos.filter(a => a.type !== 'drawing_layer')
RECURSIVE WithoutLayer(_)
WithoutLayer(items) ==
  IF items = <<>> THEN <<>>
  ELSE IF Head(items).type = "drawing_layer" THEN WithoutLayer(Tail(items))
  ELSE <<Head(items)>> \o WithoutLayer(Tail(items))

\* pageAnnos.find(a => a.type === 'drawing_layer'): the index (from 1) of the
\* first drawing layer, 0 when there is none or when an undefined slot before
\* it makes the callback throw.
RECURSIVE FindLayer(_, _)
FindLayer(items, i) ==
  IF i > Len(items) THEN 0
  ELSE IF items[i].type = "undefined" THEN 0
  ELSE IF items[i].type = "drawing_layer" THEN i
  ELSE FindLayer(items, i + 1)

\* { ...prev, [i]: list }
PutList(annos, i, items) == [annos EXCEPT ![i] = DefinedList(items)]

PageIndices == 0..(SidebarPages - 1)

\* The URLs of lines 63, 68, 69 and 71.
FontCssUrl == "https://fonts.googleapis.com/css2?family=Dancing+Script:wght@400;700&display=swap"
PdfJsUrl == "https://cdnjs.cloudflare.com/ajax/libs/pdf.js/3.11.174/pdf.min.js"
PdfLibUrl == "https://unpkg.com/pdf-lib@1.17.1/dist/pdf-lib.min.js"
WorkerUrl == "https://cdnjs.cloudflare.com/ajax/libs/pdf.js/3.11.174/pdf.worker.min.js"

NoDownload == [name |-> "", pages |-> <<>>]

\* ------------------------------------------------------------------ render
\* The editor (the third return of the component) is on screen.
EditorShown == isLibrariesLoaded /\ pdfFile # 0 /\ ~crashed

\* pages[activePageIndex] is defined: the canvases and overlays are rendered.
CanvasShown == EditorShown /\ activePageIndex < Len(pages)

\* The list rendered over the canvas: annotations[activePageIndex] || [].
ActiveItems == ListOrEmpty(annotations[activePageIndex])

\* The render of the component throws.  Line 859 reads the undeclared
\* identifier addSignature when showSignatureModal is true; line 922 indexes
\* annotations[activePageIndex] without the || [] guard; the overlay map of
\* line 964 reads anno.x of every slot.
RenderThrows ==
  /\ isLibrariesLoaded
  /\ pdfFile # 0
  /\ \/ showSignatureModal
     \/ /\ activePageIndex < Len(pages)
        /\ \/ /\ ~inputBox.open
              /\ selectedAnnotationIndex # NULL
              /\ ~annotations[activePageIndex].defined
           \/ \E i \in 1..Len(ActiveItems) : ActiveItems[i].type = "undefined"

\* The floating toolbar of lines 922-929 is rendered.
ToolbarShown ==
  /\ CanvasShown
  /\ \/ inputBox.open
     \/ /\ selectedAnnotationIndex # NULL
        /\ selectedAnnotationIndex < Len(ActiveItems)
        /\ ActiveItems[selectedAnnotationIndex + 1].type = "text"

\* The style the toolbar shows (line 924).
ToolbarStyle ==
  IF inputBox.open THEN inputBox.style
  ELSE ActiveItems[selectedAnnotationIndex + 1].style

\* What follows a handler's state updates: the render (which may throw and
\* unmount the tree) and the two effects of lines 122-192.  canvas is the draw
\* canvas as the handler left it; pdfDeps and drawDeps tell whether a
\* dependency of the PDF-layer effect (activePageIndex, pages, pdfFile) and of
\* the drawing-layer effect (activePageIndex, annotations) changed identity.
\*  - PDF layer: the cleanup cancels the live renderPdf, a new one starts and
\*    resizes both canvases once its two awaits are over (PdfResize).
\*  - drawing layer: clearRect at once; the stored layer's image is drawn when
\*    it has loaded (ImgLoaded).  Pending loads of earlier runs are not
\*    cancelled.  Two pending loads of the same image are one entry.
RenderAndEffects(canvas, pdfDeps, drawDeps) ==
  LET mounted == ~RenderThrows' /\ pdfFile' # 0 /\ activePageIndex' < Len(pages')
      items == ListOrEmpty(annotations'[activePageIndex'])
      k == FindLayer(items, 1)
  IN /\ crashed' = RenderThrows'
     /\ pdfRender' = IF pdfDeps
                     THEN (IF mounted /\ isLibrariesLoaded' THEN "pending" ELSE "idle")
                     ELSE pdfRender
     /\ drawCanvas' = IF drawDeps /\ mounted THEN {} ELSE canvas
     /\ imgLoads' = IF drawDeps /\ mounted /\ k # 0
                    THEN imgLoads \cup {items[k].dataUrl}
                    ELSE imgLoads

\* No alert and no download in this step.
Quiet == alertMsg' = "" /\ download' = NoDownload

FnIdle == UNCHANGED <<fnIn, fnOut>>

\* The step is no click on Rotate.
NoRotate == UNCHANGED nRotations

\* -------------------------------------------------------------------- Init
\* The component as useState and useRef construct it (lines 11-47).
Mounted ==
  /\ isLibrariesLoaded = FALSE
  /\ pdfFile = 0
  /\ pages = <<>>
  /\ activePageIndex = 0
  /\ tool = "cursor"
  /\ annotations = [i \in PageIndices |-> NoList]
  /\ selectedAnnotationIndex = NULL
  /\ isProcessing = FALSE
  /\ showSignatureModal = FALSE
  /\ textFormatting = DefaultFormatting
  /\ dragging = NoDragging
  /\ isDrawing = FALSE
  /\ whiteoutColorRef = Named("white")
  /\ inputBox = NoInputBox
  /\ editingIndex = NULL
  /\ drawCanvas = {}
  /\ pdfRender = "idle"
  /\ imgLoads = {}
  /\ nStrokes = 0
  /\ nRotations = 0
  /\ crashed = FALSE
  /\ alertMsg = ""
  /\ download = NoDownload
  /\ requests = {}
  /\ libs = [scripts |-> "absent", runs |-> 0]

Init ==
  /\ Mounted
  /\ fnIn = <<>>
  /\ fnOut = <<>>

\* ------------------------------------------------------- library loading
\* The mount effect of lines 50-69: the stylesheet link and the two script
\* tags are appended to document.head.
MountEffect ==
  /\ libs.runs = 0
  /\ libs' = [scripts |-> "loading", runs |-> 1]
  /\ requests' = requests \cup {FontCssUrl, PdfJsUrl, PdfLibUrl}
  /\ Quiet /\ FnIdle /\ NoRotate
  /\ UNCHANGED <<isLibrariesLoaded, pdfFile, pages, activePageIndex, tool,
                 annotations, selectedAnnotationIndex, isProcessing,
                 showSignatureModal, textFormatting, dragging, isDrawing,
                 whiteoutColorRef, inputBox, editingIndex, drawCanvas,
                 pdfRender, imgLoads, nStrokes, crashed>>

\* The effect runs a second time for the one mount, as React.StrictMode
\* (main.jsx, lines 6-10) makes it, before a script has loaded.  The link is
\* appended again; loadScript finds both script tags and resolves at once
\* (line 53); the then-callback reads window.pdfjsLib.GlobalWorkerOptions
\* (line 71) while window.pdfjsLib is undefined, the TypeError rejects the
\* chain and the catch-callback alerts (lines 73-76).
StrictEffect ==
  /\ libs = [scripts |-> "loading", runs |-> 1]
  /\ libs' = [libs EXCEPT !.runs = 2]
  /\ requests' = requests \cup {FontCssUrl}
  /\ alertMsg' = "Failed to load essential PDF libraries."
  /\ download' = NoDownload
  /\ FnIdle /\ NoRotate
  /\ UNCHANGED <<isLibrariesLoaded, pdfFile, pages, activePageIndex, tool,
                 annotations, selectedAnnotationIndex, isProcessing,
                 showSignatureModal, textFormatting, dragging, isDrawing,
                 whiteoutColorRef, inputBox, editingIndex, drawCanvas,
                 pdfRender, imgLoads, nStrokes, crashed>>

\* Both scripts have loaded: the Promise.all of the first run resolves
\* (lines 70-72).
LibrariesLoaded ==
  /\ libs.scripts = "loading"
  /\ libs' = [libs EXCEPT !.scripts = "loaded"]
  /\ isLibrariesLoaded' = TRUE
  /\ Quiet /\ FnIdle /\ NoRotate
  /\ UNCHANGED <<pdfFile, pages, activePageIndex, tool, annotations,
                 selectedAnnotationIndex, isProcessing, showSignatureModal,
                 textFormatting, dragging, isDrawing, whiteoutColorRef,
                 inputBox, editingIndex, drawCanvas, pdfRender, imgLoads,
                 nStrokes, crashed, requests>>

\* A script fails to load: the Promise.all of the first run rejects
\* (lines 73-76).
LibrariesFailed ==
  /\ libs.scripts = "loading"
  /\ libs' = [libs EXCEPT !.scripts = "failed"]
  /\ alertMsg' = "Failed to load essential PDF libraries."
  /\ download' = NoDownload
  /\ FnIdle /\ NoRotate
  /\ UNCHANGED <<isLibrariesLoaded, pdfFile, pages, activePageIndex, tool,
                 annotations, selectedAnnotationIndex, isProcessing,
                 showSignatureModal, textFormatting, dragging, isDrawing,
                 whiteoutColorRef, inputBox, editingIndex, drawCanvas,
                 pdfRender, imgLoads, nStrokes, crashed, requests>>

\* ------------------------------------------------------------------ upload
\* A variant of GetDocumentRequests in which the document is posted to a
\* server when it is opened.
GetDocumentUploads(n) == {WorkerUrl, "https://upload.invalid/document"}

\* What getDocument asks the network for when it is handed the bytes of an
\* n-page document (n = 0: bytes pdf.js rejects): the worker script of
\* workerSrc (lines 71, 87).
GetDocumentRequests(n) == {WorkerUrl}

\* A variant of LoadedPages that numbers the pages from 0, as an array is.
LoadedPagesFromZero(n) == [i \in 1..n |-> [id |-> i - 1, rotation |-> 0]]

\* newPages of handleFileUpload for a document of n pages (lines 90-106).
LoadedPages(n) == [i \in 1..n |-> [id |-> i, rotation |-> 0]]

\* handleFileUpload with no file chosen (lines 81-82).
HandleFileUploadNoFile ==
  /\ isLibrariesLoaded /\ pdfFile = 0 /\ ~crashed
  /\ Quiet /\ FnIdle /\ NoRotate
  /\ UNCHANGED <<isLibrariesLoaded, pdfFile, pages, activePageIndex, tool,
                 annotations, selectedAnnotationIndex, isProcessing,
                 showSignatureModal, textFormatting, dragging, isDrawing,
                 whiteoutColorRef, inputBox, editingIndex, drawCanvas,
                 pdfRender, imgLoads, nStrokes, crashed, requests, libs>>

\* handleFileUpload with a readable PDF of n pages (lines 80-119).  pdf.js
\* starts its worker from workerSrc on the first getDocument.
HandleFileUpload(n) ==
  /\ isLibrariesLoaded /\ pdfFile = 0 /\ ~crashed
  /\ pdfFile' = n
  /\ pages' = LoadedPages(n)
  /\ annotations' = [i \in PageIndices |-> NoList]
  /\ activePageIndex' = 0
  /\ requests' = requests \cup GetDocumentRequests(n)
  /\ Quiet /\ FnIdle /\ NoRotate
  /\ UNCHANGED <<isLibrariesLoaded, tool, selectedAnnotationIndex,
                 isProcessing, showSignatureModal, textFormatting, dragging,
                 isDrawing, whiteoutColorRef, inputBox, editingIndex,
                 nStrokes, libs>>
  /\ RenderAndEffects(drawCanvas, TRUE, TRUE)

\* handleFileUpload with a file pdf.js rejects (lines 113-115).
HandleFileUploadFails ==
  /\ isLibrariesLoaded /\ pdfFile = 0 /\ ~crashed
  /\ alertMsg' = "Could not load PDF."
  /\ download' = NoDownload
  /\ requests' = requests \cup GetDocumentRequests(0)
  /\ FnIdle /\ NoRotate
  /\ UNCHANGED <<isLibrariesLoaded, pdfFile, pages, activePageIndex, tool,
                 annotations, selectedAnnotationIndex, isProcessing,
                 showSignatureModal, textFormatting, dragging, isDrawing,
                 whiteoutColorRef, inputBox, editingIndex, drawCanvas,
                 pdfRender, imgLoads, nStrokes, crashed, libs>>

\* ----------------------------------------------------------------- header
\* The header buttons and the sidebar take the keyboard focus from an open
\* input box, whose onBlur (lines 950-955) has then closed it: they act with
\* no input box open and no pointer gesture under way.
ChromeClick == EditorShown /\ ~inputBox.open /\ dragging = NoDragging /\ ~isDrawing

\* The tool buttons (lines 869-875).
SetTool(t) ==
  /\ ChromeClick
  /\ tool' = t
  /\ Quiet /\ FnIdle /\ NoRotate
  /\ UNCHANGED <<isLibrariesLoaded, pdfFile, pages, activePageIndex,
                 annotations, selectedAnnotationIndex, isProcessing,
                 showSignatureModal, textFormatting, dragging, isDrawing,
                 whiteoutColorRef, inputBox, editingIndex, nStrokes,
                 requests, libs>>
  /\ RenderAndEffects(drawCanvas, FALSE, FALSE)

\* The Sign button (line 873): setShowSignatureModal(true), then the render.
PressSign ==
  /\ ChromeClick
  /\ showSignatureModal' = TRUE
  /\ Quiet /\ FnIdle /\ NoRotate
  /\ UNCHANGED <<isLibrariesLoaded, pdfFile, pages, activePageIndex, tool,
                 annotations, selectedAnnotationIndex, isProcessing,
                 textFormatting, dragging, isDrawing, whiteoutColorRef,
                 inputBox, editingIndex, nStrokes, requests, libs>>
  /\ RenderAndEffects(drawCanvas, FALSE, FALSE)

\* ----------------------------------------------------------------- sidebar
\* onClick of a sidebar page (line 889).
SetActivePage(idx) ==
  /\ ChromeClick
  /\ idx \in 0..(Len(pages) - 1)
  /\ activePageIndex' = idx
  /\ Quiet /\ FnIdle /\ NoRotate
  /\ UNCHANGED <<isLibrariesLoaded, pdfFile, pages, tool, annotations,
                 selectedAnnotationIndex, isProcessing, showSignatureModal,
                 textFormatting, dragging, isDrawing, whiteoutColorRef,
                 inputBox, editingIndex, nStrokes, requests, libs>>
  /\ RenderAndEffects(drawCanvas, idx # activePageIndex, idx # activePageIndex)

\* newPages of movePage (lines 804-807)
SwapPages(ps, index, direction) ==
  [ps EXCEPT ![index + 1] = ps[index + direction + 1],
             ![index + direction + 1] = ps[index + 1]]

\* A variant of SwapAnnos that leaves the lists where they are.
KeptAnnos(annos, index, direction) == annos

\* newAnnos of movePage (lines 811-814)
SwapAnnos(annos, index, direction) ==
  [annos EXCEPT ![index] = annos[index + direction],
                ![index + direction] = annos[index]]

\* movePage(index, direction) (lines 802-816)
MovePage(index, direction) ==
  /\ ChromeClick
  /\ index \in 0..(Len(pages) - 1)
  /\ Quiet /\ FnIdle /\ NoRotate
  /\ UNCHANGED <<isLibrariesLoaded, pdfFile, tool, selectedAnnotationIndex,
                 isProcessing, showSignatureModal, textFormatting, dragging,
                 isDrawing, whiteoutColorRef, inputBox, editingIndex,
                 nStrokes, requests, libs>>
  /\ IF (direction = -1 /\ index = 0) \/ (direction = 1 /\ index = Len(pages) - 1)
     THEN UNCHANGED <<pages, activePageIndex, annotations, crashed, pdfRender,
                      drawCanvas, imgLoads>>
     ELSE /\ pages' = SwapPages(pages, index, direction)
          /\ activePageIndex' =
               IF activePageIndex = index THEN index + direction
               ELSE IF activePageIndex = index + direction THEN index
               ELSE activePageIndex
          /\ annotations' = SwapAnnos(annotations, index, direction)
          /\ RenderAndEffects(drawCanvas, TRUE, TRUE)

\* the updater of rotatePage (line 819)
RotatedPages(ps, index) ==
  [i \in 1..Len(ps) |->
     IF i = index + 1
     THEN [ps[i] EXCEPT !.rotation = (ps[i].rotation + 90) % 360]
     ELSE ps[i]]

\* rotatePage(index) (lines 818-820)
RotatePage(index) ==
  /\ ChromeClick
  /\ index \in 0..(Len(pages) - 1)
  /\ pages' = RotatedPages(pages, index)
  /\ nRotations' = nRotations + 1
  /\ Quiet /\ FnIdle
  /\ UNCHANGED <<isLibrariesLoaded, pdfFile, activePageIndex, tool,
                 annotations, selectedAnnotationIndex, isProcessing,
                 showSignatureModal, textFormatting, dragging, isDrawing,
                 whiteoutColorRef, inputBox, editingIndex, nStrokes,
                 requests, libs>>
  /\ RenderAndEffects(drawCanvas, TRUE, FALSE)

\* pages.filter((_, i) => i !== index) (line 824)
RemovePage(ps, index) ==
  [i \in 1..(Len(ps) - 1) |-> IF i <= index THEN ps[i] ELSE ps[i + 1]]

\* A variant of ClampedActive that leaves the index as it is.
UnclampedActive(api, newLength) == api

\* activePageIndex after deletePage (line 826)
ClampedActive(api, newLength) ==
  IF api >= newLength THEN newLength - 1 ELSE api

\* deletePage(index) (lines 822-827)
DeletePage(index) ==
  /\ ChromeClick
  /\ index \in 0..(Len(pages) - 1)
  /\ download' = NoDownload
  /\ FnIdle /\ NoRotate
  /\ UNCHANGED <<isLibrariesLoaded, pdfFile, tool, selectedAnnotationIndex,
                 isProcessing, showSignatureModal, textFormatting, dragging,
                 isDrawing, whiteoutColorRef, inputBox, editingIndex,
                 nStrokes, requests, libs, annotations>>
  /\ IF Len(pages) <= 1
     THEN /\ alertMsg' = "Cannot delete only page"
          /\ UNCHANGED <<pages, activePageIndex, crashed, pdfRender,
                         drawCanvas, imgLoads>>
     ELSE /\ alertMsg' = ""
          /\ pages' = RemovePage(pages, index)
          /\ activePageIndex' = ClampedActive(activePageIndex, Len(pages) - 1)
          /\ RenderAndEffects(drawCanvas, TRUE, activePageIndex' # activePageIndex)

\* -------------------------------------------------------------------- save
\* The size, in points, of a copied page (copiedPage.getSize(), line 666).
PageWidth == 200
PageHeight == 100

\* The fonts object of lines 623-636: key -> embedded standard font.
fonts ==
  [Helvetica |-> "Helvetica",
   HelveticaBold |-> "HelveticaBold",
   HelveticaOblique |-> "HelveticaOblique",
   HelveticaBoldOblique |-> "HelveticaBoldOblique",
   Times |-> "TimesRoman",
   TimesBold |-> "TimesRomanBold",
   TimesItalic |-> "TimesRomanItalic",
   TimesBoldItalic |-> "TimesRomanBoldItalic",
   Courier |-> "Courier",
   CourierBold |-> "CourierBold",
   CourierOblique |-> "CourierOblique",
   CourierBoldOblique |-> "CourierBoldOblique"]

\* getPdfFont(family, bold, italic) (lines 638-649)
getPdfFont(family, bold, italic) ==
  LET base == IF family = "Times" THEN "Times"
              ELSE IF family = "Courier" THEN "Courier"
              ELSE "Helvetica"
      key == IF bold /\ italic THEN base \o "BoldItalic"
             ELSE IF bold THEN base \o "Bold"
             ELSE IF italic
                  THEN base \o (IF family = "Helvetica" \/ family = "Courier"
                                THEN "Oblique" ELSE "Italic")
             ELSE base
  IN IF key \in DOMAIN fonts THEN fonts[key] ELSE fonts.Helvetica

\* hexToRgb (lines 651-658) on the toolbar's palette (line 539), in 255ths.
hexToRgb(hex) ==
  CASE hex = "#000000" -> <<0, 0, 0>>
    [] hex = "#ef4444" -> <<239, 68, 68>>
    [] hex = "#3b82f6" -> <<59, 130, 246>>
    [] hex = "#22c55e" -> <<34, 197, 94>>
    [] hex = "#f59e0b" -> <<245, 158, 11>>
    [] OTHER -> <<0, 0, 0>>

\* One drawing call on a copied page.
DrawOp(op, text, x, y, size, font, color, image, w, h) ==
  [op |-> op, text |-> text, x |-> x, y |-> y, size |-> size, font |-> font,
   color |-> color, image |-> image, w |-> w, h |-> h]

\* A variant of AnnoOps that draws the text and never the underline.
AnnoOpsNoUnderline(anno) ==
  IF anno.type = "text"
  THEN <<DrawOp("drawText", anno.content, (anno.x * PageWidth) \div RelUnit,
                PageHeight - ((anno.y * PageHeight) \div RelUnit),
                anno.style.fontSize,
                getPdfFont(anno.style.fontFamily, anno.style.isBold, anno.style.isItalic),
                hexToRgb(anno.style.color), {}, 0, 0)>>
  ELSE IF anno.type = "drawing_layer"
  THEN <<DrawOp("drawImage", "", 0, 0, 0, "", <<0, 0, 0>>, anno.dataUrl,
                PageWidth, PageHeight)>>
  ELSE <<>>

\* The calls savePdf makes for one annotation (lines 668-704).
AnnoOps(anno) ==
  LET px == (anno.x * PageWidth) \div RelUnit
      py == PageHeight - ((anno.y * PageHeight) \div RelUnit)
      font == getPdfFont(anno.style.fontFamily, anno.style.isBold, anno.style.isItalic)
      color == hexToRgb(anno.style.color)
  IN IF anno.type = "text"
     THEN <<DrawOp("drawText", anno.content, px, py, anno.style.fontSize,
                   font, color, {}, 0, 0)>>
          \o (IF anno.style.isUnderline
              THEN <<DrawOp("drawLine", anno.content, px, py - 2,
                            anno.style.fontSize, font, color, {}, 0, 1)>>
              ELSE <<>>)
     ELSE IF anno.type = "drawing_layer"
     THEN <<DrawOp("drawImage", "", 0, 0, 0, "", <<0, 0, 0>>, anno.dataUrl,
                   PageWidth, PageHeight)>>
     ELSE IF anno.type = "image"
     THEN <<DrawOp("drawImage", anno.content, px, py, 0, "", <<0, 0, 0>>,
                   anno.dataUrl, 0, 0)>>
     ELSE <<>>

\* The inner loop of savePdf over one page's list (line 668).
RECURSIVE ListOps(_)
ListOps(items) ==
  IF items = <<>> THEN <<>> ELSE AnnoOps(Head(items)) \o ListOps(Tail(items))

\* A variant of SavedPage that copies the original page at the sidebar
\* position instead of the page the sidebar entry stands for.
SavedPageByIndex(i) ==
  [copyOf |-> i,
   rotation |-> pages[i + 1].rotation,
   ops |-> ListOps(ListOrEmpty(annotations[i]))]

\* The page savePdf adds for index i (lines 661-706): the copy of original
\* page pages[i].id - 1, its rotation, and the drawing calls made on it.
SavedPage(i) ==
  [copyOf |-> pages[i + 1].id - 1,
   rotation |-> pages[i + 1].rotation,
   ops |-> ListOps(ListOrEmpty(annotations[i]))]

\* The outer loop of savePdf (line 660).
SavedPages == [i \in 1..Len(pages) |-> SavedPage(i - 1)]

\* anno.type of an undefined slot throws inside the loop (line 669).
SaveThrows ==
  \E i \in 0..(Len(pages) - 1) :
    \E j \in 1..Len(ListOrEmpty(annotations[i])) :
      ListOrEmpty(annotations[i])[j].type = "undefined"

\* savePdf (lines 615-721), from the click to the download.  pages and
\* annotations are the values of the render the click happened in, so the
\* awaits of the handler see nothing a later event changes.
SavePdf ==
  /\ ChromeClick
  /\ ~isProcessing
  /\ IF SaveThrows
     THEN alertMsg' = "Error saving." /\ download' = NoDownload
     ELSE /\ alertMsg' = ""
          /\ download' = [name |-> "edited_document.pdf", pages |-> SavedPages]
  /\ FnIdle /\ NoRotate
  /\ UNCHANGED <<isLibrariesLoaded, pdfFile, pages, activePageIndex, tool,
                 annotations, selectedAnnotationIndex, isProcessing,
                 showSignatureModal, textFormatting, dragging, isDrawing,
                 whiteoutColorRef, inputBox, editingIndex, drawCanvas,
                 pdfRender, imgLoads, nStrokes, crashed, requests, libs>>

\* --------------------------------------------------------- smart whiteout
Pixel(r, g, b, a) == [r |-> r, g |-> g, b |-> b, a |-> a]

\* 0.299 * r + 0.587 * g + 0.114 * b, in thousandths (line 280)
Luma(p) == LumaR * p.r + LumaG * p.g + LumaB * p.b

\* A variant of Brightest that does not look at a pixel's alpha.
RECURSIVE BrightestAnyAlpha(_, _, _, _)
BrightestAnyAlpha(data, i, maxLuma, bestColor) ==
  IF i > Len(data) THEN [maxLuma |-> maxLuma, bestColor |-> bestColor]
  ELSE IF Luma(data[i]) > maxLuma
       THEN BrightestAnyAlpha(data, i + 1, Luma(data[i]),
                              Rgb(data[i].r, data[i].g, data[i].b))
       ELSE BrightestAnyAlpha(data, i + 1, maxLuma, bestColor)

\* The loop of lines 270-287 over the sampled pixels from index i on, with
\* the running maxLuma and bestColor.
RECURSIVE Brightest(_, _, _, _)
Brightest(data, i, maxLuma, bestColor) ==
  IF i > Len(data) THEN [maxLuma |-> maxLuma, bestColor |-> bestColor]
  ELSE IF data[i].a > AlphaMin /\ Luma(data[i]) > maxLuma
       THEN Brightest(data, i + 1, Luma(data[i]),
                      Rgb(data[i].r, data[i].g, data[i].b))
       ELSE Brightest(data, i + 1, maxLuma, bestColor)

\* The colour handleCanvasLayerDown stores in whiteoutColorRef (lines
\* 252-303): data are the pixels getImageData returned, throws tells that
\* the sampling threw.
StrokeColor(t, data, throws) ==
  IF t = "whiteout"
  THEN IF throws THEN Named("white")
       ELSE LET best == Brightest(data, 1, -1 * LumaUnit, Named("white"))
            IN IF best.maxLuma < LumaMin * LumaUnit THEN Named("white")
               ELSE best.bestColor
  ELSE Named("#ef4444")

\* The sampled window drawn while editing: white paper beside black print.
EditWindows == {<<Pixel(0, 0, 0, 255), Pixel(255, 255, 255, 255)>>}

\* The windows sampled while ink is drawn: print on paper, and print alone.
InkWindows ==
  {<<Pixel(0, 0, 0, 255), Pixel(255, 255, 255, 255)>>, <<Pixel(0, 0, 0, 255)>>}

\* ----------------------------------------------------------- text entry
\* handleInputConfirm(text) (lines 337-374): the new annotations map, the
\* selection and the tool.  The history field of a replaced entry stays.
ConfirmedAnno(text) ==
  TextAnno(text, inputBox.relX, inputBox.relY, inputBox.style,
           IF editingIndex # NULL /\ editingIndex < Len(ActiveItems)
           THEN ActiveItems[editingIndex + 1].page
           ELSE pages[activePageIndex + 1].id)

\* A variant of ConfirmedItems that puts a new annotation first in the list.
ConfirmedItemsInFront(text) ==
  IF editingIndex # NULL
  THEN SetAt(ActiveItems, editingIndex, ConfirmedAnno(text))
  ELSE <<ConfirmedAnno(text)>> \o ActiveItems

\* A variant of ConfirmedItems that appends the annotation of an edit too.
ConfirmedItemsAppended(text) == Append(ActiveItems, ConfirmedAnno(text))

\* pageAnnos after the updater of lines 339-354.
ConfirmedItems(text) ==
  IF editingIndex # NULL
  THEN SetAt(ActiveItems, editingIndex, ConfirmedAnno(text))
  ELSE Append(ActiveItems, ConfirmedAnno(text))

ConfirmedSelection ==
  IF editingIndex = NULL THEN Len(ActiveItems) ELSE editingIndex

\* The state updates of handleInputConfirm(text); the canvases and the
\* render follow in RenderAndEffects.
InputConfirm(text) ==
  /\ IF ~IsBlank(text) /\ inputBox.open
     THEN /\ annotations' = PutList(annotations, activePageIndex, ConfirmedItems(text))
          /\ selectedAnnotationIndex' = ConfirmedSelection
          /\ tool' = "cursor"
     ELSE IF editingIndex # NULL /\ IsBlank(text)
     THEN /\ annotations' = PutList(annotations, activePageIndex,
                                    Splice(ActiveItems, editingIndex))
          /\ UNCHANGED <<selectedAnnotationIndex, tool>>
     ELSE UNCHANGED <<annotations, selectedAnnotationIndex, tool>>
  /\ inputBox' = NoInputBox
  /\ editingIndex' = NULL

\* handleInputConfirm replaced the annotations object.
ConfirmTouchesAnnos(text) ==
  (~IsBlank(text) /\ inputBox.open) \/ (editingIndex # NULL /\ IsBlank(text))

\* No pointer gesture is under way (pointer-down and pointer-up alternate).
NoGesture == dragging = NoDragging /\ ~isDrawing

\* The number of text annotations of a list.
RECURSIVE TextCount(_)
TextCount(items) ==
  IF items = <<>> THEN 0
  ELSE (IF Head(items).type = "text" THEN 1 ELSE 0) + TextCount(Tail(items))

\* handleCanvasLayerDown (lines 218-319): a pointer-down on the draw canvas
\* at pt, the window sampled around it holding data.
HandleCanvasLayerDown(pt, data, throws) ==
  /\ CanvasShown /\ NoGesture
  /\ Quiet /\ FnIdle /\ NoRotate
  /\ UNCHANGED <<isLibrariesLoaded, pdfFile, pages, activePageIndex,
                 isProcessing, showSignatureModal, textFormatting, dragging,
                 requests, libs>>
  /\ CASE tool = "cursor" ->
            /\ IF inputBox.open
               THEN InputConfirm(inputBox.text)
               ELSE /\ selectedAnnotationIndex' = NULL
                    /\ UNCHANGED <<annotations, tool, inputBox, editingIndex>>
            /\ UNCHANGED <<isDrawing, whiteoutColorRef, nStrokes>>
            /\ RenderAndEffects(drawCanvas, FALSE,
                                inputBox.open /\ ConfirmTouchesAnnos(inputBox.text))
       [] tool = "text" ->
            /\ inputBox' = [open |-> TRUE, x |-> pt[1], y |-> pt[2],
                            relX |-> RelOf(pt[1], ContainerW),
                            relY |-> RelOf(pt[2], ContainerH),
                            text |-> "", style |-> textFormatting]
            /\ editingIndex' = NULL
            /\ UNCHANGED <<annotations, selectedAnnotationIndex, tool,
                           isDrawing, whiteoutColorRef, nStrokes>>
            /\ RenderAndEffects(drawCanvas, FALSE, FALSE)
       [] tool \in {"draw", "whiteout"} ->
            /\ isDrawing' = TRUE
            /\ selectedAnnotationIndex' = NULL
            /\ whiteoutColorRef' = StrokeColor(tool, data, throws)
            /\ nStrokes' = nStrokes + 1
            /\ UNCHANGED <<annotations, tool, inputBox, editingIndex>>
            /\ RenderAndEffects(drawCanvas \cup {nStrokes + 1}, FALSE, FALSE)

\* The state updates of two calls of handleInputConfirm(text) made by
\* handlers of one render: both calls see the same inputBox, editingIndex
\* and annotations, and their updaters (lines 339-354, 364-368) run one
\* after the other on the queued state.
InputConfirmTwice(text) ==
  /\ IF ~IsBlank(text) /\ inputBox.open
     THEN /\ annotations' =
               PutList(annotations, activePageIndex,
                       IF editingIndex # NULL
                       THEN SetAt(ConfirmedItems(text), editingIndex, ConfirmedAnno(text))
                       ELSE Append(ConfirmedItems(text), ConfirmedAnno(text)))
          /\ selectedAnnotationIndex' = ConfirmedSelection
          /\ tool' = "cursor"
     ELSE IF editingIndex # NULL /\ IsBlank(text)
     THEN /\ annotations' =
               PutList(annotations, activePageIndex,
                       Splice(Splice(ActiveItems, editingIndex), editingIndex))
          /\ UNCHANGED <<selectedAnnotationIndex, tool>>
     ELSE UNCHANGED <<annotations, selectedAnnotationIndex, tool>>
  /\ inputBox' = NoInputBox
  /\ editingIndex' = NULL

\* Enter in the input box and the blur of the input, both handled before
\* the component renders again (lines 950-959).
InputEnterThenBlur ==
  /\ CanvasShown /\ inputBox.open /\ NoGesture
  /\ InputConfirmTwice(inputBox.text)
  /\ Quiet /\ FnIdle /\ NoRotate
  /\ UNCHANGED <<isLibrariesLoaded, pdfFile, pages, activePageIndex,
                 isProcessing, showSignatureModal, textFormatting, dragging,
                 isDrawing, whiteoutColorRef, nStrokes, requests, libs>>
  /\ RenderAndEffects(drawCanvas, FALSE, ConfirmTouchesAnnos(inputBox.text))

\* A pointer-down on the canvas with the cursor tool and the blur of the
\* input it causes, both handled before the component renders again (lines
\* 219-226, 950-955).
CursorDownThenBlur ==
  /\ CanvasShown /\ inputBox.open /\ NoGesture
  /\ tool = "cursor"
  /\ InputConfirmTwice(inputBox.text)
  /\ Quiet /\ FnIdle /\ NoRotate
  /\ UNCHANGED <<isLibrariesLoaded, pdfFile, pages, activePageIndex,
                 isProcessing, showSignatureModal, textFormatting, dragging,
                 isDrawing, whiteoutColorRef, nStrokes, requests, libs>>
  /\ RenderAndEffects(drawCanvas, FALSE, ConfirmTouchesAnnos(inputBox.text))

\* onChange of the input box (line 949)
InputChange(text) ==
  /\ CanvasShown /\ inputBox.open /\ NoGesture
  /\ text # inputBox.text
  /\ inputBox' = [inputBox EXCEPT !.text = text]
  /\ Quiet /\ FnIdle /\ NoRotate
  /\ UNCHANGED <<isLibrariesLoaded, pdfFile, pages, activePageIndex, tool,
                 annotations, selectedAnnotationIndex, isProcessing,
                 showSignatureModal, textFormatting, dragging, isDrawing,
                 whiteoutColorRef, editingIndex, nStrokes, requests, libs>>
  /\ RenderAndEffects(drawCanvas, FALSE, FALSE)

\* Enter in the input box (line 957).  Keys are pressed between pointer
\* gestures.
InputEnter ==
  /\ CanvasShown /\ inputBox.open /\ NoGesture
  /\ InputConfirm(inputBox.text)
  /\ Quiet /\ FnIdle /\ NoRotate
  /\ UNCHANGED <<isLibrariesLoaded, pdfFile, pages, activePageIndex,
                 isProcessing, showSignatureModal, textFormatting, dragging,
                 isDrawing, whiteoutColorRef, nStrokes, requests, libs>>
  /\ RenderAndEffects(drawCanvas, FALSE, ConfirmTouchesAnnos(inputBox.text))

\* onBlur of the input box (lines 950-955): the focus leaves it.
InputBlur ==
  /\ CanvasShown /\ inputBox.open /\ ~isDrawing
  /\ Quiet /\ FnIdle /\ NoRotate
  /\ UNCHANGED <<isLibrariesLoaded, pdfFile, pages, activePageIndex,
                 isProcessing, showSignatureModal, textFormatting, dragging,
                 isDrawing, whiteoutColorRef, nStrokes, requests, libs>>
  /\ IF dragging.type # "input"
     THEN /\ InputConfirm(inputBox.text)
          /\ RenderAndEffects(drawCanvas, FALSE, ConfirmTouchesAnnos(inputBox.text))
     ELSE UNCHANGED <<annotations, selectedAnnotationIndex, tool, inputBox,
                      editingIndex, crashed, pdfRender, drawCanvas, imgLoads>>

\* deleteInputBox (lines 511-514): Escape, or the toolbar's trash button.
DeleteInputBox ==
  /\ CanvasShown /\ inputBox.open /\ NoGesture
  /\ inputBox' = NoInputBox
  /\ editingIndex' = NULL
  /\ Quiet /\ FnIdle /\ NoRotate
  /\ UNCHANGED <<isLibrariesLoaded, pdfFile, pages, activePageIndex, tool,
                 annotations, selectedAnnotationIndex, isProcessing,
                 showSignatureModal, textFormatting, dragging, isDrawing,
                 whiteoutColorRef, nStrokes, requests, libs>>
  /\ RenderAndEffects(drawCanvas, FALSE, FALSE)

\* ------------------------------------------------------------ annotations
\* Annotation i of the active page is rendered with its handlers (lines
\* 964-1016): text and image entries, except the one being edited.
AnnoRendered(i) ==
  /\ CanvasShown
  /\ i \in 0..(Len(ActiveItems) - 1)
  /\ ActiveItems[i + 1].type \in {"text", "image"}
  /\ editingIndex # i

\* A variant of Grabbable that lets every tool take hold of an annotation.
GrabbableWithAnyTool == TRUE

\* handleAnnotationMouseDown goes on after its first line (line 377).
Grabbable == tool = "cursor"

\* handleAnnotationMouseDown(e, index) (lines 376-401).  The pointer goes
\* down on the annotation's anchor point.
HandleAnnotationMouseDown(index) ==
  /\ AnnoRendered(index) /\ NoGesture
  /\ Grabbable
  /\ selectedAnnotationIndex' = index
  /\ textFormatting' = IF ActiveItems[index + 1].type = "text"
                       THEN ActiveItems[index + 1].style
                       ELSE textFormatting
  /\ dragging' = [type |-> "annotation", index |-> index,
                  startX |-> PxOf(ActiveItems[index + 1].x, ContainerW),
                  startY |-> PxOf(ActiveItems[index + 1].y, ContainerH),
                  initialX |-> ActiveItems[index + 1].x,
                  initialY |-> ActiveItems[index + 1].y]
  /\ Quiet /\ FnIdle /\ NoRotate
  /\ UNCHANGED <<isLibrariesLoaded, pdfFile, pages, activePageIndex, tool,
                 annotations, isProcessing, showSignatureModal, isDrawing,
                 whiteoutColorRef, inputBox, editingIndex, nStrokes,
                 requests, libs>>
  /\ RenderAndEffects(drawCanvas, FALSE, FALSE)

\* handleInputBoxDragStart (lines 403-418): the pointer goes down on the
\* toolbar's drag handle, taken to be at the box's own position.
HandleInputBoxDragStart ==
  /\ CanvasShown /\ inputBox.open /\ NoGesture
  /\ dragging' = [type |-> "input", index |-> NULL,
                  startX |-> inputBox.x, startY |-> inputBox.y,
                  initialX |-> inputBox.x, initialY |-> inputBox.y]
  /\ Quiet /\ FnIdle /\ NoRotate
  /\ UNCHANGED <<isLibrariesLoaded, pdfFile, pages, activePageIndex, tool,
                 annotations, selectedAnnotationIndex, isProcessing,
                 showSignatureModal, textFormatting, isDrawing,
                 whiteoutColorRef, inputBox, editingIndex, nStrokes,
                 requests, libs>>
  /\ RenderAndEffects(drawCanvas, FALSE, FALSE)

\* handleAnnotationDoubleClick(e, index) (lines 420-440).  The browser sends
\* dblclick after the two pointer-downs on the annotation, which selected it.
HandleAnnotationDoubleClick(index) ==
  /\ AnnoRendered(index) /\ NoGesture
  /\ tool = "cursor"
  /\ selectedAnnotationIndex = index
  /\ ActiveItems[index + 1].type = "text"
  /\ editingIndex' = index
  /\ inputBox' = [open |-> TRUE,
                  x |-> PxOf(ActiveItems[index + 1].x, ContainerW),
                  y |-> PxOf(ActiveItems[index + 1].y, ContainerH),
                  relX |-> ActiveItems[index + 1].x,
                  relY |-> ActiveItems[index + 1].y,
                  text |-> ActiveItems[index + 1].content,
                  style |-> ActiveItems[index + 1].style]
  /\ Quiet /\ FnIdle /\ NoRotate
  /\ UNCHANGED <<isLibrariesLoaded, pdfFile, pages, activePageIndex, tool,
                 annotations, selectedAnnotationIndex, isProcessing,
                 showSignatureModal, textFormatting, dragging, isDrawing,
                 whiteoutColorRef, nStrokes, requests, libs>>
  /\ RenderAndEffects(drawCanvas, FALSE, FALSE)

\* A variant of DraggedItems that moves every entry of the list.
DraggedItemsTogether(items, newX, newY) ==
  [j \in 1..Len(items) |-> [items[j] EXCEPT !.x = newX, !.y = newY]]

\* A variant of MovedInputBox that leaves relX and relY as they were.
MovedInputBoxOnScreen(box, newX, newY) == [box EXCEPT !.x = newX, !.y = newY]

\* The updater of the input-box drag (lines 456-462).
MovedInputBox(box, newX, newY) ==
  [box EXCEPT !.x = newX, !.y = newY,
              !.relX = RelOf(newX, ContainerW), !.relY = RelOf(newY, ContainerH)]

\* The updater of the annotation drag (lines 471-476).
DraggedItems(items, newX, newY) ==
  IF dragging.index < Len(items) /\ items[dragging.index + 1].type # "undefined"
  THEN [items EXCEPT ![dragging.index + 1] =
          [items[dragging.index + 1] EXCEPT !.x = newX, !.y = newY]]
  ELSE items

\* handleGlobalMouseMove (lines 442-479) with the pointer at pt.
HandleGlobalMouseMove(pt) ==
  /\ EditorShown
  /\ isDrawing \/ dragging # NoDragging
  /\ Quiet /\ FnIdle /\ NoRotate
  /\ UNCHANGED <<isLibrariesLoaded, pdfFile, pages, activePageIndex, tool,
                 selectedAnnotationIndex, isProcessing, showSignatureModal,
                 textFormatting, dragging, isDrawing, whiteoutColorRef,
                 editingIndex, nStrokes, requests, libs>>
  /\ IF isDrawing
     THEN /\ UNCHANGED <<annotations, inputBox>>
          /\ RenderAndEffects(drawCanvas \cup {nStrokes}, FALSE, FALSE)
     ELSE IF dragging.type = "input"
     THEN /\ inputBox.open
          /\ inputBox' = MovedInputBox(inputBox,
                                       dragging.initialX + (pt[1] - dragging.startX),
                                       dragging.initialY + (pt[2] - dragging.startY))
          /\ UNCHANGED annotations
          /\ RenderAndEffects(drawCanvas, FALSE, FALSE)
     ELSE LET newX == dragging.initialX + RelOf(pt[1] - dragging.startX, ContainerW)
              newY == dragging.initialY + RelOf(pt[2] - dragging.startY, ContainerH)
              hit == /\ dragging.index < Len(ActiveItems)
                     /\ ActiveItems[dragging.index + 1].type # "undefined"
          IN /\ annotations' =
                  IF hit
                  THEN PutList(annotations, activePageIndex,
                               DraggedItems(ActiveItems, newX, newY))
                  ELSE annotations
             /\ UNCHANGED inputBox
             /\ RenderAndEffects(drawCanvas, FALSE, hit)

\* A variant of StoppedAnnos that stores the snapshot under the first page.
StoppedAnnosFirstPage(annos, api, newDataUrl, pageId) ==
  PutList(annos, 0,
          Append(WithoutLayer(ListOrEmpty(annos[0])), LayerAnno(newDataUrl, pageId)))

\* The annotations map after stopDrawing's updater (lines 490-497): the
\* snapshot of the draw canvas replaces the active page's drawing layer.
StoppedAnnos(annos, api, newDataUrl, pageId) ==
  PutList(annos, api,
          Append(WithoutLayer(ListOrEmpty(annos[api])), LayerAnno(newDataUrl, pageId)))

\* dragging after if (dragging) setDragging(null) (line 483).
AfterMouseUp(d) == IF d # NoDragging THEN NoDragging ELSE d

\* handleGlobalMouseUp (lines 481-484) with stopDrawing (lines 486-498).
HandleGlobalMouseUp ==
  /\ EditorShown
  /\ isDrawing \/ dragging # NoDragging
  /\ isDrawing' = FALSE
  /\ dragging' = AfterMouseUp(dragging)
  /\ Quiet /\ FnIdle /\ NoRotate
  /\ UNCHANGED <<isLibrariesLoaded, pdfFile, pages, activePageIndex, tool,
                 selectedAnnotationIndex, isProcessing, showSignatureModal,
                 textFormatting, whiteoutColorRef, inputBox, editingIndex,
                 nStrokes, requests, libs>>
  /\ IF isDrawing
     THEN /\ annotations' = StoppedAnnos(annotations, activePageIndex, drawCanvas,
                                         pages[activePageIndex + 1].id)
          /\ RenderAndEffects(drawCanvas, FALSE, TRUE)
     ELSE /\ UNCHANGED annotations
          /\ RenderAndEffects(drawCanvas, FALSE, FALSE)

\* deleteAnnotation(e, idx) (lines 500-509), the confirm() answered OK.  The
\* button belongs to the selected annotation (lines 998-1000, 1010-1012);
\* the dialog takes the focus, so no input box is open.
DeleteAnnotation(idx) ==
  /\ AnnoRendered(idx) /\ NoGesture
  /\ ~inputBox.open
  /\ selectedAnnotationIndex = idx
  /\ annotations' = PutList(annotations, activePageIndex, Splice(ActiveItems, idx))
  /\ selectedAnnotationIndex' = NULL
  /\ Quiet /\ FnIdle /\ NoRotate
  /\ UNCHANGED <<isLibrariesLoaded, pdfFile, pages, activePageIndex, tool,
                 isProcessing, showSignatureModal, textFormatting, dragging,
                 isDrawing, whiteoutColorRef, inputBox, editingIndex,
                 nStrokes, requests, libs>>
  /\ RenderAndEffects(drawCanvas, FALSE, TRUE)

\* { ...style, [key]: value }
WithKey(style, key, value) ==
  [k \in DOMAIN style |-> IF k = key THEN value ELSE style[k]]

\* The toolbar controls exercised: <<key, value>> as the toolbar passes them
\* to onUpdate (lines 563-590) when it shows style.
FormatUpdates(style) ==
  {<<"isUnderline", ~style.isUnderline>>}

\* updateFormatting(key, value) (lines 516-535)
UpdateFormatting(key, value) ==
  LET newStyle == WithKey(textFormatting, key, value)
      hit == /\ selectedAnnotationIndex # NULL
             /\ selectedAnnotationIndex < Len(ActiveItems)
             /\ ActiveItems[selectedAnnotationIndex + 1].type = "text"
  IN /\ ToolbarShown /\ NoGesture
     /\ textFormatting' = newStyle
     /\ inputBox' = IF inputBox.open THEN [inputBox EXCEPT !.style = newStyle]
                    ELSE inputBox
     /\ annotations' =
          IF hit
          THEN PutList(annotations, activePageIndex,
                 [ActiveItems EXCEPT ![selectedAnnotationIndex + 1] =
                    [@ EXCEPT !.style = WithKey(@, key, value)]])
          ELSE annotations
     /\ Quiet /\ FnIdle /\ NoRotate
     /\ UNCHANGED <<isLibrariesLoaded, pdfFile, pages, activePageIndex, tool,
                    selectedAnnotationIndex, isProcessing, showSignatureModal,
                    dragging, isDrawing, whiteoutColorRef, editingIndex,
                    nStrokes, requests, libs>>
     /\ RenderAndEffects(drawCanvas, FALSE, hit)

\* -------------------------------------------------- asynchronous rendering
\* renderPdf resumes after its awaits, not cancelled (lines 134-148):
\* setting width and height clears both canvases.
PdfResize ==
  /\ EditorShown
  /\ pdfRender = "pending"
  /\ pdfRender' = "idle"
  /\ drawCanvas' = {}
  /\ Quiet /\ FnIdle /\ NoRotate
  /\ UNCHANGED <<isLibrariesLoaded, pdfFile, pages, activePageIndex, tool,
                 annotations, selectedAnnotationIndex, isProcessing,
                 showSignatureModal, textFormatting, dragging, isDrawing,
                 whiteoutColorRef, inputBox, editingIndex, imgLoads,
                 nStrokes, crashed, requests, libs>>

\* img.onload of a renderDrawings call (lines 186-187): the stored layer is
\* drawn over what the canvas holds.
ImgLoaded(img) ==
  /\ EditorShown
  /\ img \in imgLoads
  /\ imgLoads' = imgLoads \ {img}
  /\ drawCanvas' = drawCanvas \cup img
  /\ Quiet /\ FnIdle /\ NoRotate
  /\ UNCHANGED <<isLibrariesLoaded, pdfFile, pages, activePageIndex, tool,
                 annotations, selectedAnnotationIndex, isProcessing,
                 showSignatureModal, textFormatting, dragging, isDrawing,
                 whiteoutColorRef, inputBox, editingIndex, pdfRender,
                 nStrokes, crashed, requests, libs>>

\* -------------------------------------------------------------------- Next
\* Loading the libraries and a document of at most n pages.
Loading(n) ==
  \/ MountEffect
  \/ LibrariesLoaded
  \/ LibrariesFailed
  \/ \E k \in 1..n : HandleFileUpload(k)
  \/ HandleFileUploadFails
  \/ HandleFileUploadNoFile

\* The header's tool buttons, Sign and Save.
Header(tools) ==
  \/ \E t \in tools : SetTool(t)
  \/ PressSign
  \/ SavePdf

\* The sidebar, with at most maxRotations clicks on Rotate.
Sidebar(maxRotations) ==
  \/ \E idx \in PageIndices : SetActivePage(idx)
  \/ \E idx \in PageIndices, d \in {-1, 1} : MovePage(idx, d)
  \/ \E idx \in PageIndices : nRotations < maxRotations /\ RotatePage(idx)
  \/ \E idx \in PageIndices : DeletePage(idx)

\* A pointer-down on the canvas opens no more than maxAnnos text boxes per
\* page and starts no more than maxStrokes strokes.
WithinBounds(maxAnnos, maxStrokes) ==
  /\ tool = "text" => TextCount(ActiveItems) < maxAnnos
  /\ tool \in {"draw", "whiteout"} => nStrokes < maxStrokes

\* The pointer on the canvas: getImageData returns one of windows, or throws when throwing allows it.
Pointer(points, windows, throwing, maxAnnos, maxStrokes) ==
  \/ \E pt \in points, data \in windows, throws \in throwing :
       WithinBounds(maxAnnos, maxStrokes) /\ HandleCanvasLayerDown(pt, data, throws)
  \/ \E pt \in points : HandleGlobalMouseMove(pt)
  \/ HandleGlobalMouseUp

\* The input box and the toolbar.
Entry(typed) ==
  \/ \E text \in typed : InputChange(text)
  \/ InputEnter
  \/ InputBlur
  \/ DeleteInputBox
  \/ \E u \in FormatUpdates(IF ToolbarShown THEN ToolbarStyle ELSE DefaultFormatting) :
       UpdateFormatting(u[1], u[2])

\* Selecting, dragging, editing and deleting what is on the page.
Manipulation(maxAnnos) ==
  \/ \E i \in 0..maxAnnos : HandleAnnotationMouseDown(i)
  \/ HandleInputBoxDragStart
  \/ \E i \in 0..maxAnnos : HandleAnnotationDoubleClick(i)
  \/ \E i \in 0..maxAnnos : DeleteAnnotation(i)

\* The whole component; its runs are unbounded in the text typed, the ink
\* drawn and the pages rotated.
Next ==
  \/ Loading(MaxPages)
  \/ StrictEffect
  \/ Header(Tools)
  \/ Sidebar(nRotations + 1)
  \/ Pointer(Points, InkWindows, BOOLEAN, Len(ActiveItems) + 1, nStrokes + 1)
  \/ Entry(Typed)
  \/ Manipulation(Len(ActiveItems))
  \/ InputEnterThenBlur
  \/ CursorDownThenBlur
  \/ PdfResize
  \/ \E img \in imgLoads : ImgLoaded(img)

Spec == Init /\ [][Next]_vars

\* Building and saving a document: pages are reordered, rotated and deleted,
\* text is typed at one point and ink is drawn with the pen; what is on a
\* page is not selected, dragged or edited again.
DocPoints == {<<1, 1>>}
DocTyped == {"a"}
DocTools == {"cursor", "text", "draw"}

NextDoc ==
  \/ Loading(MaxPages)
  \/ Header(DocTools)
  \/ Sidebar(DocRotations)
  \/ Pointer(DocPoints, EditWindows, {FALSE}, DocAnnos, DocStrokes)
  \/ Entry(DocTyped)
  \/ PdfResize
  \/ \E img \in imgLoads : ImgLoaded(img)

SpecDoc == Init /\ [][NextDoc]_vars

\* Editing one page: text is typed, selected, dragged, edited again and
\* deleted; no ink is drawn.
EditTools == {"cursor", "text"}

NextEdit ==
  \/ Loading(1)
  \/ Header(EditTools)
  \/ Pointer(Points, EditWindows, {FALSE}, EditAnnos, 0)
  \/ Entry(Typed)
  \/ Manipulation(EditAnnos)
  \/ PdfResize

SpecEdit == Init /\ [][NextEdit]_vars

\* Editing one page where the blur of the input may be handled in the same
\* render as the event that confirms the box.
NextConfirm ==
  \/ NextEdit
  \/ InputEnterThenBlur
  \/ CursorDownThenBlur

SpecConfirm == Init /\ [][NextConfirm]_vars

\* Editing one page where the text of a box is typed again: a second word
\* can replace the first.
Retyped == {" ", "a", "b"}

NextRetype ==
  \/ Loading(1)
  \/ Header(EditTools)
  \/ Pointer(Points, EditWindows, {FALSE}, EditAnnos, 0)
  \/ Entry(Retyped)
  \/ Manipulation(EditAnnos)
  \/ PdfResize

SpecRetype == Init /\ [][NextRetype]_vars

\* The sidebar of a longer document: text is typed on its pages, which are
\* looked at, reordered and deleted; nothing is rotated, drawn or saved.
NextPages ==
  \/ Loading(SidebarPages)
  \/ \E t \in EditTools : SetTool(t)
  \/ \E idx \in PageIndices : SetActivePage(idx)
  \/ \E idx \in PageIndices, d \in {-1, 1} : MovePage(idx, d)
  \/ \E idx \in PageIndices : DeletePage(idx)
  \/ \E pt \in DocPoints, data \in EditWindows :
       WithinBounds(DocAnnos, 0) /\ HandleCanvasLayerDown(pt, data, FALSE)
  \/ \E text \in DocTyped : InputChange(text)
  \/ InputEnter
  \/ PdfResize

SpecPages == Init /\ [][NextPages]_vars

\* Text and ink on one page, with every tool: text is typed, selected,
\* dragged, edited and deleted, and ink is drawn.
NextDrag ==
  \/ Loading(1)
  \/ Header(Tools)
  \/ Pointer(Points, EditWindows, {FALSE}, DragAnnos, DragStrokes)
  \/ Entry(Typed)
  \/ Manipulation(DragAnnos)
  \/ PdfResize
  \/ \E img \in imgLoads : ImgLoaded(img)

SpecDrag == Init /\ [][NextDrag]_vars

\* Drawing ink: strokes of the pen and of the whiteout over paper and over
\* print, on pages that are switched, reordered, rotated and deleted.
InkTools == {"draw", "whiteout"}
NextInk ==
  \/ Loading(MaxPages)
  \/ \E t \in InkTools : SetTool(t)
  \/ Sidebar(InkRotations)
  \/ Pointer(DocPoints, InkWindows, BOOLEAN, 0, InkStrokes)
  \/ PdfResize
  \/ \E img \in imgLoads : ImgLoaded(img)

SpecInk == Init /\ [][NextInk]_vars

\* Opening a document: the libraries load, in production and under
\* React.StrictMode, a document is opened, or is not, and its pages are
\* looked at, reordered, rotated and deleted.
NextLoad ==
  \/ Loading(MaxPages)
  \/ StrictEffect
  \/ \E t \in DocTools : SetTool(t)
  \/ Sidebar(DocRotations)

SpecLoad == Init /\ [][NextLoad]_vars

\* ------------------------------------------------------------ font lookup
\* The fonts savePdf looks up (line 671) for the text annotations of a
\* document, one call of getPdfFont per annotation.  fnIn holds the styles
\* of the annotations, fnOut the fonts found so far.  "Arial" stands for a
\* family the toolbar does not offer.
FontFamilies == Families \cup {"Arial"}
FontStyles == [fontFamily : FontFamilies, isBold : BOOLEAN, isItalic : BOOLEAN]

\* The sequences over S of length lo to hi.
SeqsOf(S, lo, hi) == UNION {[1..k -> S] : k \in lo..hi}

InitFont ==
  /\ Mounted
  /\ fnIn \in SeqsOf(FontStyles, 1, MaxFontCalls)
  /\ fnOut = <<>>

LookupFont ==
  /\ Len(fnOut) < Len(fnIn)
  /\ fnOut' = Append(fnOut,
                     LET style == fnIn[Len(fnOut) + 1]
                     IN getPdfFont(style.fontFamily, style.isBold, style.isItalic))
  /\ UNCHANGED <<isLibrariesLoaded, pdfFile, pages, activePageIndex, tool,
                 annotations, selectedAnnotationIndex, isProcessing,
                 showSignatureModal, textFormatting, dragging, isDrawing,
                 whiteoutColorRef, inputBox, editingIndex, drawCanvas,
                 pdfRender, imgLoads, nStrokes, nRotations, crashed, alertMsg,
                 download, requests, libs, fnIn>>

NextFont == LookupFont

SpecFont == InitFont /\ [][NextFont]_vars

\* --------------------------------------------------------- colour sampling
\* The colour of one stroke (lines 252-303).  fnIn holds the tool, the
\* pixels getImageData returns and whether it throws; fnOut the colour.
\* The pixels: print, paper, tinted paper, greys on either side of the luma
\* threshold, and paper at alpha 0 and at the alpha threshold.  On these
\* the sums of line 280 compare in doubles as they do in thousandths.
SamplePixels ==
  {Pixel(0, 0, 0, 255), Pixel(255, 255, 255, 255), Pixel(250, 240, 200, 255),
   Pixel(100, 100, 100, 255), Pixel(99, 99, 99, 255),
   Pixel(255, 255, 255, 0), Pixel(255, 255, 255, 50)}

InitWhiteout ==
  /\ Mounted
  /\ fnIn \in [tool : {"draw", "whiteout"},
               data : SeqsOf(SamplePixels, 0, MaxSamples),
               throws : BOOLEAN]
  /\ fnOut = <<>>

SampleColor ==
  /\ fnOut = <<>>
  /\ fnOut' = <<StrokeColor(fnIn.tool, fnIn.data, fnIn.throws)>>
  /\ UNCHANGED <<isLibrariesLoaded, pdfFile, pages, activePageIndex, tool,
                 annotations, selectedAnnotationIndex, isProcessing,
                 showSignatureModal, textFormatting, dragging, isDrawing,
                 whiteoutColorRef, inputBox, editingIndex, drawCanvas,
                 pdfRender, imgLoads, nStrokes, nRotations, crashed, alertMsg,
                 download, requests, libs, fnIn>>

NextWhiteout == SampleColor

SpecWhiteout == InitWhiteout /\ [][NextWhiteout]_vars

\* ------------------------------------------------------------- properties
\* C1: once the Sign button has set showSignatureModal, the editor keeps
\* rendering without raising an error (so that Add in the modal can append
\* the signature to the page).  The render of line 859 reads addSignature,
\* which is declared nowhere: the property fails in SpecDoc.
C1_SignKeepsRendering == showSignatureModal => ~crashed

\* The ids of the pages on which the entries of a list were created.
CreatedOn(list) ==
  {ListOrEmpty(list)[j].page : j \in 1..Len(ListOrEmpty(list))}

\* C2: the annotation list stored under index i holds only what the user
\* created on the page that is now pages[i]: lists follow their pages when
\* pages are moved, rotated and deleted.  deletePage leaves the lists where
\* they are: the property fails in SpecDoc.
C2_ListsFollowPages ==
  \A i \in 0..(Len(pages) - 1) : CreatedOn(annotations[i]) \subseteq {pages[i + 1].id}

\* The drawing calls ops flatten the list items: each call belongs to one
\* entry, calls are in the order of their entries, a text entry has its
\* drawText, followed by a drawLine exactly when it is underlined, a drawing
\* layer has one full-page drawImage and an image one drawImage.
Flattens(ops, items) ==
  \E f \in [1..Len(ops) -> 1..Len(items)] :
    /\ \A k \in 1..(Len(ops) - 1) : f[k] <= f[k + 1]
    /\ \A j \in 1..Len(items) :
         LET calls == {k \in 1..Len(ops) : f[k] = j}
             first == CHOOSE k \in calls : \A m \in calls : k <= m
             last == CHOOSE k \in calls : \A m \in calls : m <= k
             a == items[j]
         IN CASE a.type = "text" ->
                   /\ Cardinality(calls) = IF a.style.isUnderline THEN 2 ELSE 1
                   /\ ops[first].op = "drawText"
                   /\ ops[first].text = a.content
                   /\ ops[first].x * RelUnit <= a.x * PageWidth
                   /\ a.x * PageWidth < (ops[first].x + 1) * RelUnit
                   /\ a.style.isUnderline => ops[last].op = "drawLine"
              [] a.type = "drawing_layer" ->
                   /\ Cardinality(calls) = 1
                   /\ ops[first].op = "drawImage"
                   /\ ops[first].image = a.dataUrl
                   /\ <<ops[first].x, ops[first].y>> = <<0, 0>>
                   /\ <<ops[first].w, ops[first].h>> = <<PageWidth, PageHeight>>
              [] a.type = "image" ->
                   /\ Cardinality(calls) = 1
                   /\ ops[first].op = "drawImage"
              [] OTHER -> calls = {}

\* C3: the document savePdf hands to the browser carries, on its page i, the
\* drawing calls that flatten annotations[i], for every page index i: no
\* annotation is skipped and none is drawn on a different page.
C3_SaveFlattensEveryEdit ==
  download # NoDownload =>
    \A i \in 1..Len(download.pages) :
      Flattens(download.pages[i].ops, ListOrEmpty(annotations[i - 1]))

\* A document was saved whose page carries underlined text and ink.
C3_Witness ==
  /\ download # NoDownload
  /\ \E i \in 1..Len(download.pages) :
       /\ Len(download.pages[i].ops) = 3
       /\ \E k \in 1..3 : download.pages[i].ops[k].op = "drawLine"
       /\ \E k \in 1..3 : download.pages[i].ops[k].op = "drawImage"

\* C4: the saved document has pages.length pages; its i-th page is the copy
\* of original page pages[i].id (copyPages index id - 1) with the rotation
\* pages[i].rotation.
C4_SavedPagesFollowSidebar ==
  download # NoDownload =>
    /\ Len(download.pages) = Len(pages)
    /\ \A i \in 1..Len(pages) :
         /\ download.pages[i].copyOf = pages[i].id - 1
         /\ download.pages[i].rotation = pages[i].rotation

\* A two-page document was saved after its first page was deleted and its
\* second page rotated.
C4_Witness ==
  /\ download # NoDownload
  /\ pdfFile = 2
  /\ Len(download.pages) = 1
  /\ download.pages[1].copyOf = 1
  /\ download.pages[1].rotation = 90

\* The strokes held by the drawing layers of a list.
StoredInk(list) ==
  UNION {ListOrEmpty(list)[j].dataUrl :
           j \in {k \in 1..Len(ListOrEmpty(list)) :
                    ListOrEmpty(list)[k].type = "drawing_layer"}}

\* C5: existing ink is never lost: when stopDrawing stores the snapshot, the
\* page's drawing layer holds all the strokes it held before and the new
\* one.  The resize of the PDF-layer effect clears the draw canvas after the
\* drawing-layer effect has painted it, and rotatePage runs the PDF-layer
\* effect alone: the property fails in SpecInk.
C5_InkNeverLost ==
  [][(isDrawing /\ HandleGlobalMouseUp) =>
       (StoredInk(annotations[activePageIndex]) \cup {nStrokes})
         \subseteq StoredInk(annotations'[activePageIndex])]_vars

\* The handler that confirms the open input box runs: Enter, the loss of
\* focus, or a pointer-down on the canvas with the cursor tool.
ConfirmStep ==
  \/ InputEnter
  \/ dragging.type # "input" /\ InputBlur
  \/ /\ tool = "cursor"
     /\ \E pt \in Points, data \in EditWindows : HandleCanvasLayerDown(pt, data, FALSE)

\* C6: with the text tool, a pointer-down on the canvas opens an empty input
\* box at the click position with the current textFormatting and no
\* editingIndex; confirming a box that edits no annotation with non-blank
\* text appends one text annotation {content, x: relX, y: relY, style} to
\* the end of the active page's list, selects it, sets the cursor tool and
\* closes the box.
C6_AddTextBox ==
  [][/\ \A pt \in Points :
          (tool = "text" /\ \E data \in EditWindows : HandleCanvasLayerDown(pt, data, FALSE))
            => /\ inputBox'.open
               /\ <<inputBox'.x, inputBox'.y>> = pt
               /\ inputBox'.relX * ContainerW <= pt[1] * RelUnit
               /\ pt[1] * RelUnit < (inputBox'.relX + 1) * ContainerW
               /\ inputBox'.relY * ContainerH <= pt[2] * RelUnit
               /\ pt[2] * RelUnit < (inputBox'.relY + 1) * ContainerH
               /\ inputBox'.text = ""
               /\ inputBox'.style = textFormatting
               /\ editingIndex' = NULL
     /\ (inputBox.open /\ editingIndex = NULL /\ inputBox.text \notin {"", " "} /\ ConfirmStep)
          => LET old == ListOrEmpty(annotations[activePageIndex])
                 new == ListOrEmpty(annotations'[activePageIndex])
             IN /\ Len(new) = Len(old) + 1
                /\ \A j \in 1..Len(old) : new[j] = old[j]
                /\ new[Len(new)].type = "text"
                /\ new[Len(new)].content = inputBox.text
                /\ new[Len(new)].x = inputBox.relX
                /\ new[Len(new)].y = inputBox.relY
                /\ new[Len(new)].style = inputBox.style
                /\ \A i \in PageIndices \ {activePageIndex} :
                     annotations'[i] = annotations[i]
                /\ selectedAnnotationIndex' = Len(new) - 1
                /\ tool' = "cursor"
                /\ inputBox' = NoInputBox
                /\ editingIndex' = NULL]_vars

\* A second text box was added behind the first, at another point, and is
\* selected.
C6_Witness ==
  /\ ~inputBox.open
  /\ tool = "cursor"
  /\ Len(ActiveItems) = 2
  /\ ActiveItems[1].type = "text"
  /\ ActiveItems[2].type = "text"
  /\ ActiveItems[1].x # ActiveItems[2].x
  /\ selectedAnnotationIndex = 1

\* The entries of a list that are no drawing layer, in order.
IsNoLayer(a) == a.type # "drawing_layer"
OtherEntries(list) == SelectSeq(ListOrEmpty(list), IsNoLayer)

\* C7: with the draw or whiteout tool a pointer-down on the canvas sets
\* isDrawing and clears the selection; the pointer-up that ends the stroke
\* clears isDrawing and leaves the active page with one drawing layer, the
\* snapshot of the draw canvas, beside its other entries; the annotations of
\* every other page are unchanged.
C7_StrokeCommittedOnPointerUp ==
  [][/\ (/\ tool \in {"draw", "whiteout"}
         /\ \E pt \in DocPoints, data \in InkWindows, throws \in BOOLEAN :
              HandleCanvasLayerDown(pt, data, throws))
          => isDrawing' /\ selectedAnnotationIndex' = NULL
     /\ (isDrawing /\ HandleGlobalMouseUp)
          => LET new == ListOrEmpty(annotations'[activePageIndex])
                 layers == {j \in 1..Len(new) : new[j].type = "drawing_layer"}
             IN /\ ~isDrawing'
                /\ annotations'[activePageIndex].defined
                /\ Cardinality(layers) = 1
                /\ \A j \in layers : new[j].dataUrl = drawCanvas
                /\ OtherEntries(annotations'[activePageIndex])
                     = OtherEntries(annotations[activePageIndex])
                /\ \A i \in PageIndices \ {activePageIndex} :
                     annotations'[i] = annotations[i]]_vars

\* The second page is active and a second stroke, of the whiteout in the
\* colour of the paper, was committed over the first: its layer holds both.
C7_Witness ==
  /\ ~isDrawing
  /\ activePageIndex = 1
  /\ whiteoutColorRef = Rgb(255, 255, 255)
  /\ StoredInk(annotations[1]) = {1, 2}
  /\ ~annotations[0].defined

\* C8: with the whiteout tool the stroke colour is the rgb of a pixel of
\* greatest luma among the sampled pixels of alpha above 50, provided that
\* luma is at least 100; it is white when no sampled pixel has alpha above
\* 50, when the greatest luma is below 100 and when the sampling throws.
\* With the draw tool it is #ef4444.
C8_SmartWhiteoutColour ==
  fnOut # <<>> =>
    LET data == fnIn.data
        opaque == {i \in 1..Len(data) : data[i].a > 50}
        top == CHOOSE i \in opaque : \A k \in opaque : Luma(data[k]) <= Luma(data[i])
    IN IF fnIn.tool = "draw" THEN fnOut[1] = Named("#ef4444")
       ELSE IF fnIn.throws \/ opaque = {} THEN fnOut[1] = Named("white")
       ELSE IF Luma(data[top]) < 100 * LumaUnit THEN fnOut[1] = Named("white")
       ELSE \E i \in opaque :
              /\ Luma(data[i]) = Luma(data[top])
              /\ fnOut[1] = Rgb(data[i].r, data[i].g, data[i].b)

\* Tinted paper beside transparent white: the stroke takes the tint.
C8_Witness ==
  /\ fnOut = <<Rgb(250, 240, 200)>>
  /\ fnIn.tool = "whiteout"
  /\ fnIn.data = <<Pixel(255, 255, 255, 50), Pixel(250, 240, 200, 255)>>

\* The standard font of a family with a weight and a slant: Helvetica and
\* Courier slant as Oblique, Times as Italic.
StandardFont(family, bold, italic) ==
  (IF family = "Times" THEN "TimesRoman" ELSE family)
    \o (IF bold THEN "Bold" ELSE "")
    \o (IF italic THEN (IF family = "Times" THEN "Italic" ELSE "Oblique") ELSE "")

\* C9: for every family of {Helvetica, Times, Courier} and every isBold and
\* isItalic, getPdfFont returns the standard font of that family with that
\* weight and slant; plain Helvetica is the answer for an unknown family
\* only.  Bold and italic together make the key <family>BoldItalic, which
\* the fonts object holds for Times alone: the property fails in SpecFont.
C9_FontMatchesStyle ==
  \A k \in 1..Len(fnOut) :
    fnOut[k] = IF fnIn[k].fontFamily \in Families
               THEN StandardFont(fnIn[k].fontFamily, fnIn[k].isBold, fnIn[k].isItalic)
               ELSE "Helvetica"

\* C10: whatever is uploaded, drawn, typed and saved, the page asks the
\* network for nothing but the font stylesheet, the two library scripts and
\* the worker script, at addresses fixed in the source; what is saved goes to
\* the browser's download and not to the network.
C10_OnlyLibraryRequests ==
  requests \subseteq {FontCssUrl, PdfJsUrl, PdfLibUrl, WorkerUrl}

\* A document with text on it was uploaded and saved, and all four fetches
\* were made.
C10_Witness ==
  /\ requests = {FontCssUrl, PdfJsUrl, PdfLibUrl, WorkerUrl}
  /\ download.name = "edited_document.pdf"
  /\ \E i \in 1..Len(download.pages) :
       \E k \in 1..Len(download.pages[i].ops) : download.pages[i].ops[k].op = "drawText"

\* C11: isLibrariesLoaded is true only once both library scripts have
\* loaded, and the alert of the loading effect is shown only if a script
\* failed to load, also when the effect runs twice for one mount.  The
\* second run resolves before a script has loaded and its then-callback
\* throws: the property fails in SpecLoad.
C11_AlertOnlyOnFailure ==
  /\ isLibrariesLoaded => libs.scripts = "loaded"
  /\ alertMsg = "Failed to load essential PDF libraries." => libs.scripts = "failed"

\* C12: a document is opened only with the libraries loaded; a document of
\* N pages leaves pages with ids 1..N in order and rotation 0, no
\* annotations and the first page active; a failure alerts and leaves
\* pdfFile, pages, annotations and activePageIndex as they were, and so does
\* an upload without a file, which does not alert.
C12_LoadingADocument ==
  [][/\ pdfFile' # pdfFile =>
          /\ isLibrariesLoaded
          /\ Len(pages') = pdfFile'
          /\ \A i \in 1..Len(pages') : pages'[i].id = i /\ pages'[i].rotation = 0
          /\ \A i \in PageIndices : ~annotations'[i].defined
          /\ activePageIndex' = 0
          /\ alertMsg' = ""
     /\ HandleFileUploadFails =>
          /\ isLibrariesLoaded
          /\ UNCHANGED <<pdfFile, pages, annotations, activePageIndex>>
          /\ alertMsg' = "Could not load PDF."
     /\ HandleFileUploadNoFile =>
          /\ UNCHANGED <<pdfFile, pages, annotations, activePageIndex>>
          /\ alertMsg' = ""
     /\ alertMsg' = "Could not load PDF." =>
          UNCHANGED <<pdfFile, pages, annotations, activePageIndex>>]_vars

\* A two-page document is open, untouched.
C12_Witness ==
  /\ pdfFile = 2
  /\ pages = <<[id |-> 1, rotation |-> 0], [id |-> 2, rotation |-> 0]>>
  /\ activePageIndex = 0
  /\ isLibrariesLoaded

\* C13: in every state in which an annotation is selected the active page
\* has an annotation list, so that the toolbar condition of line 922 does
\* not read an entry of undefined.  The sidebar changes activePageIndex and
\* keeps the selection: the property fails in SpecDoc.
C13_SelectedListDefined ==
  (pdfFile # 0 /\ selectedAnnotationIndex # NULL) => annotations[activePageIndex].defined

\* The text of the open input box is an entry of the active page's list
\* after the step, at the place of the box.
Committed ==
  \E j \in 1..Len(ListOrEmpty(annotations'[activePageIndex])) :
    LET a == ListOrEmpty(annotations'[activePageIndex])[j]
    IN /\ a.type = "text"
       /\ a.content = inputBox.text
       /\ <<a.x, a.y>> = <<inputBox.relX, inputBox.relY>>

\* C14: when an input box holding non-blank text is open and the pointer
\* goes down on the canvas, with the cursor tool or with the text tool, the
\* text is committed as an annotation.  With the text tool the box is
\* replaced by an empty one and nothing is committed: the property fails in
\* SpecEdit.
C14_TypedTextCommitted ==
  [][(/\ inputBox.open
      /\ inputBox.text \notin {"", " "}
      /\ \E pt \in Points, data \in EditWindows : HandleCanvasLayerDown(pt, data, FALSE))
       => Committed]_vars

\* C16: in the saved document the ink of a page lies beneath its text: on
\* every saved page the full-page drawImage of the drawing layer comes
\* before every drawText.  stopDrawing puts the layer behind the entries
\* the list already holds: the property fails in SpecDoc.
C16_InkBeneathText ==
  download # NoDownload =>
    \A i \in 1..Len(download.pages) :
      LET ops == download.pages[i].ops
      IN \A j \in 1..Len(ops), k \in 1..Len(ops) :
           (ops[j].op = "drawImage" /\ ops[k].op = "drawText") => j < k

\* C20: a change of formatting made while a new input box is open (no
\* annotation is being edited) changes textFormatting and the style of the
\* box and no committed annotation.  updateFormatting restyles the selected
\* annotation whether or not a box is open: the property fails in SpecEdit.
C20_FormattingOfNewBox ==
  [][(/\ inputBox.open
      /\ editingIndex = NULL
      /\ \E value \in BOOLEAN : UpdateFormatting("isUnderline", value))
       => annotations' = annotations]_vars

\* C15: one text entry yields one annotation: when handleInputConfirm runs
\* twice for the same new input box before the component renders again
\* (Enter and blur, or the cursor's pointer-down and blur), the active
\* page's list grows by one entry.  Each call queues an updater that appends
\* the annotation: the property fails in SpecConfirm.
C15_OneEntryOneAnnotation ==
  [][(/\ inputBox.open
      /\ editingIndex = NULL
      /\ inputBox.text \notin {"", " "}
      /\ InputEnterThenBlur \/ CursorDownThenBlur)
       => Len(ListOrEmpty(annotations'[activePageIndex])) = Len(ActiveItems) + 1]_vars

\* C17: dragging becomes non-null only by a pointer-down on an annotation
\* with the cursor tool or on the drag handle of the input box; isDrawing
\* becomes true only by a pointer-down on the canvas with the draw or the
\* whiteout tool; every pointer-up clears both; isDrawing and a non-null
\* dragging never hold together.
C17_DragStateMachine ==
  [][/\ (dragging' # NoDragging /\ dragging' # dragging) =>
          \/ tool = "cursor" /\ \E i \in 0..Len(ActiveItems) : HandleAnnotationMouseDown(i)
          \/ HandleInputBoxDragStart
     /\ (~isDrawing /\ isDrawing') =>
          /\ tool \in {"draw", "whiteout"}
          /\ \E pt \in Points, data \in EditWindows : HandleCanvasLayerDown(pt, data, FALSE)
     /\ HandleGlobalMouseUp => (~isDrawing' /\ dragging' = NoDragging)
     /\ ~(isDrawing' /\ dragging' # NoDragging)]_vars

\* A stroke of the whiteout is being drawn over a page that holds an
\* underlined text.
C17_Witness ==
  /\ isDrawing
  /\ dragging = NoDragging
  /\ Len(ActiveItems) = 1
  /\ ActiveItems[1].type = "text"
  /\ ActiveItems[1].style.isUnderline
  /\ whiteoutColorRef = Rgb(255, 255, 255)

\* C18: a pointer-move during the drag of an annotation sets x and y of
\* the dragged entry to the position at the start of the drag plus the
\* displacement of the pointer divided by the width and the height of the
\* container, and changes nothing else: not its type, content and style,
\* no other entry and no other page; the pointer back at the start point
\* restores x and y; a move for an index the list does not hold changes
\* no list.
C18_DragMovesOnlyPosition ==
  [][\A pt \in Points :
       (dragging.type = "annotation" /\ HandleGlobalMouseMove(pt)) =>
         LET old == ActiveItems
             new == ListOrEmpty(annotations'[activePageIndex])
             k == dragging.index + 1
             dx == pt[1] - dragging.startX
             dy == pt[2] - dragging.startY
         IN /\ Len(new) = Len(old)
            /\ \A j \in 1..Len(old) : j # k => new[j] = old[j]
            /\ \A i \in PageIndices \ {activePageIndex} : annotations'[i] = annotations[i]
            /\ k \in 1..Len(old) =>
                 /\ (new[k].x - dragging.initialX) * ContainerW = dx * RelUnit
                 /\ (new[k].y - dragging.initialY) * ContainerH = dy * RelUnit
                 /\ new[k] = [old[k] EXCEPT !.x = new[k].x, !.y = new[k].y]
                 /\ (dx = 0 /\ dy = 0) =>
                      <<new[k].x, new[k].y>> = <<dragging.initialX, dragging.initialY>>
            /\ DraggedItems(SubSeq(old, 1, k - 1), new[k].x, new[k].y)
                 = SubSeq(old, 1, k - 1)]_vars

\* The second of two text boxes is being dragged and is away from where the
\* drag began; the first box is where it was put.
C18_Witness ==
  /\ dragging.type = "annotation"
  /\ dragging.index = 1
  /\ Len(ActiveItems) = 2
  /\ <<ActiveItems[2].x, ActiveItems[2].y>> # <<dragging.initialX, dragging.initialY>>
  /\ ActiveItems[1].type = "text"

C21_CancelledEditChangesNothing ==
  [][(/\ editingIndex # NULL
      /\ inputBox.open
      /\ \/ \E text \in Typed : InputChange(text)
         \/ \E value \in BOOLEAN : UpdateFormatting("isUnderline", value)
         \/ DeleteInputBox)
       => /\ annotations' = annotations
          /\ DeleteInputBox => (inputBox' = NoInputBox /\ editingIndex' = NULL)]_vars

\* An annotation of the active page is removed: the trash button of the
\* selected annotation, or the confirmation of an edit whose text is blank.
RemovalStep ==
  \/ \E idx \in 0..Len(ActiveItems) : DeleteAnnotation(idx)
  \/ editingIndex # NULL /\ inputBox.text \in {"", " "} /\ ConfirmStep

\* C23: after an annotation has been removed, by deleteAnnotation or by
\* confirming an edit with blank text, exactly that annotation is gone from
\* the active page's list, the others keep their order and no annotation
\* is selected.  handleInputConfirm splices the list and leaves
\* selectedAnnotationIndex at the index of the entry removed: the property
\* fails in SpecEdit.
C23_RemovalClearsSelection ==
  [][RemovalStep =>
       /\ \E k \in 0..(Len(ActiveItems) - 1) :
            ListOrEmpty(annotations'[activePageIndex]) = Splice(ActiveItems, k)
       /\ selectedAnnotationIndex' = NULL]_vars

\* C24: confirming a new input box (no annotation is being edited) whose
\* text is empty or only whitespace adds no annotation: the annotations
\* map, the selection and the tool are unchanged and the box is closed.
C24_BlankBoxAddsNothing ==
  [][(/\ inputBox.open
      /\ editingIndex = NULL
      /\ inputBox.text \in {"", " "}
      /\ ConfirmStep)
       => /\ UNCHANGED <<annotations, selectedAnnotationIndex, tool>>
          /\ inputBox' = NoInputBox
          /\ editingIndex' = NULL]_vars

\* A new input box that holds one blank is open beside a committed text
\* box.
C24_Witness ==
  /\ inputBox.open
  /\ editingIndex = NULL
  /\ inputBox.text = " "
  /\ Len(ActiveItems) = 1
  /\ ActiveItems[1].content = "a"

\* C22: the round trip of an edit.  A double-click with the cursor tool on
\* the text annotation at index k opens the input box with the
\* annotation's content, position and style and changes no list;
\* confirming a box that edits index k with non-blank text leaves the
\* active page's list with the same length, every other entry and every
\* other page as they were, and at index k a text annotation with the text,
\* relX, relY and style of the box: with the text unchanged the entry
\* equals the original, with changed text only its content differs, and
\* nothing is appended.
C22_EditRoundTrip ==
  [][/\ \A k \in 0..(Len(ActiveItems) - 1) :
          HandleAnnotationDoubleClick(k) =>
            /\ editingIndex' = k
            /\ inputBox'.open
            /\ inputBox'.text = ActiveItems[k + 1].content
            /\ inputBox'.relX = ActiveItems[k + 1].x
            /\ inputBox'.relY = ActiveItems[k + 1].y
            /\ inputBox'.style = ActiveItems[k + 1].style
            /\ annotations' = annotations
     /\ (/\ editingIndex # NULL
         /\ inputBox.open
         /\ inputBox.text \notin {"", " "}
         /\ ConfirmStep) =>
           LET old == ActiveItems
               new == ListOrEmpty(annotations'[activePageIndex])
               k == editingIndex + 1
               same == /\ inputBox.relX = old[k].x
                       /\ inputBox.relY = old[k].y
                       /\ inputBox.style = old[k].style
           IN /\ k \in 1..Len(old)
              /\ Len(new) = Len(old)
              /\ \A j \in 1..Len(old) : j # k => new[j] = old[j]
              /\ \A i \in PageIndices \ {activePageIndex} : annotations'[i] = annotations[i]
              /\ new[k].type = "text"
              /\ new[k].content = inputBox.text
              /\ <<new[k].x, new[k].y>> = <<inputBox.relX, inputBox.relY>>
              /\ new[k].style = inputBox.style
              /\ same => new[k] = [old[k] EXCEPT !.content = inputBox.text]
              /\ (same /\ inputBox.text = old[k].content) => new = old]_vars

\* The first of two text boxes is being edited; its text has been typed
\* again and differs from the content of the annotation, its position and
\* style do not.
C22_Witness ==
  /\ editingIndex = 0
  /\ inputBox.open
  /\ Len(ActiveItems) = 2
  /\ ActiveItems[1].content = "a"
  /\ inputBox.text = "b"
  /\ <<inputBox.relX, inputBox.relY>> = <<ActiveItems[1].x, ActiveItems[1].y>>
  /\ inputBox.style = ActiveItems[1].style

\* C25: movePage(index, direction) at a boundary (the first page up, the
\* last page down) changes neither pages nor the annotation lists nor the
\* active page; otherwise it swaps pages[index] with
\* pages[index + direction] and the annotation lists stored under those two
\* indices, leaves every other page and list as they were and keeps the
\* same page, by id, active; the inverse move, of index + direction by
\* -direction, restores the order of the pages, the lists and the active
\* page.
C25_MovePageSwaps ==
  [][\A index \in PageIndices, direction \in {-1, 1} :
       MovePage(index, direction) =>
         LET other == index + direction
             back(a) == IF a = other THEN index ELSE IF a = index THEN other ELSE a
         IN IF other < 0 \/ other >= Len(pages)
            THEN UNCHANGED <<pages, annotations, activePageIndex>>
            ELSE /\ Len(pages') = Len(pages)
                 /\ pages'[index + 1] = pages[other + 1]
                 /\ pages'[other + 1] = pages[index + 1]
                 /\ annotations'[index] = annotations[other]
                 /\ annotations'[other] = annotations[index]
                 /\ \A i \in PageIndices \ {index, other} :
                      /\ annotations'[i] = annotations[i]
                      /\ i < Len(pages) => pages'[i + 1] = pages[i + 1]
                 /\ pages'[activePageIndex' + 1].id = pages[activePageIndex + 1].id
                 /\ SwapPages(pages', other, -direction) = pages
                 /\ SwapAnnos(annotations', other, -direction) = annotations
                 /\ back(activePageIndex') = activePageIndex]_vars

\* Page 2 of a three-page document has been moved to the top, and the text
\* box placed on it is in the list of index 0.
C25_Witness ==
  /\ Len(pages) = 3
  /\ pages[1].id = 2
  /\ pages[2].id = 1
  /\ Len(ListOrEmpty(annotations[0])) = 1
  /\ ListOrEmpty(annotations[0])[1].page = 2
  /\ ~annotations[1].defined

\* C26: deletePage(index) removes exactly pages[index] and keeps the other
\* pages in order; when the deleted page is not the active one, the page
\* that was active, by id, is still the active page, also when index is
\* less than activePageIndex.  deletePage moves activePageIndex only when
\* it is past the end of the new list: a page deleted before the active one
\* makes the next page the active one, and the property fails in SpecPages.
C26_DeletePageKeepsActive ==
  [][\A index \in PageIndices :
       (Len(pages) > 1 /\ DeletePage(index)) =>
         /\ Len(pages') = Len(pages) - 1
         /\ \A j \in 1..Len(pages') :
              pages'[j] = IF j <= index THEN pages[j] ELSE pages[j + 1]
         /\ index # activePageIndex =>
              pages'[activePageIndex' + 1].id = pages[activePageIndex + 1].id]_vars

\* C27: once a PDF is loaded, pages is not empty, the ids of the pages are
\* pairwise distinct and activePageIndex is an index of pages; deletePage
\* on a document of one page alerts 'Cannot delete only page' and changes
\* no state.
C27_PagesWellFormed ==
  [][/\ pdfFile' # 0 =>
          /\ Len(pages') >= 1
          /\ \A i, j \in 1..Len(pages') : pages'[i].id = pages'[j].id => i = j
          /\ activePageIndex' \in 0..(Len(pages') - 1)
     /\ \A index \in PageIndices :
          (Len(pages) = 1 /\ DeletePage(index)) =>
            /\ alertMsg' = "Cannot delete only page"
            /\ UNCHANGED <<isLibrariesLoaded, pdfFile, pages, activePageIndex,
                           tool, annotations, selectedAnnotationIndex,
                           isProcessing, showSignatureModal, textFormatting,
                           dragging, isDrawing, whiteoutColorRef, inputBox,
                           editingIndex, drawCanvas, pdfRender, imgLoads,
                           crashed>>]_vars

\* The last page of a longer document is the only one left, and the
\* sidebar has refused to delete it.
C27_Witness ==
  /\ pdfFile > 1
  /\ Len(pages) = 1
  /\ pages[1].id = pdfFile
  /\ activePageIndex = 0
  /\ alertMsg = "Cannot delete only page"

=============================================================================
